---------------------------- MODULE Spec2Model ----------------------------
(***************************************************************************)
(* One call of discretized_schrodinger (main-notebook.ipynb): the mesh,    *)
(* the sampled potential, the tridiagonal Hamiltonian (main_diag,          *)
(* off_diag), the partial eigen-solve and the hbar/mass rescale.           *)
(*                                                                         *)
(* Numbers.  A float is a record [fin, num, den]: an exact fraction        *)
(* num/den with den > 0 when fin, and an inf or a nan (numpy raises for    *)
(* neither, it only warns) when not fin.  Rounding of finite values is not *)
(* modelled.  An eigenvalue is irrational in general: eigenvalue i of the  *)
(* matrix T = Tint/Den (Tint an integer matrix) is represented by          *)
(* floor(lambda_i(Tint))/Den, found exactly with the Sturm count of Tint.  *)
(* An eigenvector amplitude is kept symbolically as the pair (rank, site). *)
(*                                                                         *)
(* Arguments.  The boundary points, mass and hbar are Python numbers, as   *)
(* in the notebook's example (so hbar/mass raises ZeroDivisionError for    *)
(* mass = 0); numEigVals is within 1..numPosSteps, the range the           *)
(* select_range of the eigensolver accepts.                                *)
(***************************************************************************)
EXTENDS Integers, Sequences, FiniteSets, TLC

\* Largest number of interior mesh points (numPosSteps) explored.
MaxN == 3

\* hbar=1.0 in the signature.
HbarDefault == 1

---------------------------------------------------------------------------
\* Float arithmetic as numpy / Python do it on the values the code meets.

Abs(x) == IF x < 0 THEN -x ELSE x

Sign(x) == IF x < 0 THEN -1 ELSE IF x > 0 THEN 1 ELSE 0

RECURSIVE Gcd(_, _)
Gcd(x, y) == IF y = 0 THEN x ELSE Gcd(y, x % y)

Lcm(x, y) == (x * y) \div Gcd(x, y)

\* The finite float n/d (d > 0), in lowest terms: equal values are equal records.
Fin(n, d) ==
    LET g == Gcd(Abs(n), d)
    IN  [fin |-> TRUE, num |-> Sign(n) * (Abs(n) \div g), den |-> d \div g]

\* inf, -inf or nan.
NonFinite == [fin |-> FALSE, num |-> 0, den |-> 1]

\* x + y; inf + anything and nan + anything are not finite.
FloatAdd(x, y) ==
    IF ~x.fin \/ ~y.fin THEN NonFinite
    ELSE Fin(x.num * y.den + y.num * x.den, x.den * y.den)

\* x * y; 0 * inf is nan, so a non-finite factor always gives a non-finite.
FloatMul(x, y) ==
    IF ~x.fin \/ ~y.fin THEN NonFinite
    ELSE Fin(x.num * y.num, x.den * y.den)

\* np.power(x, -2.0): 0.0 ** -2.0 is inf (a RuntimeWarning, no exception).
PowerMinus2(x) ==
    IF ~x.fin \/ x.num = 0 THEN NonFinite
    ELSE Fin(x.den * x.den, x.num * x.num)

---------------------------------------------------------------------------
\* The inputs explored.

LeftPoints == {-1, 1}

RightPoints == {0, 1}

Masses == {-1, 0, 1, 2}

Hbars == {-1, 0, 2}

PotValues == {Fin(0, 1), Fin(1, 1), NonFinite}

VARIABLES
    potentialFunction,     \* the caller's potential, as its samples on the mesh
    initialBoundaryPoint,
    finalBoundaryPoint,
    numPosSteps,
    numEigVals,
    mass,
    hbar,
    hbarGiven,             \* whether the caller passed hbar
    pc,                    \* the statement the call is at
    xs, dx, Vx, main_diag, off_diag, eigvals, eigstates,
    energies, states,      \* the returned pair
    raised                 \* the exception that ended the call, or "none"

args == <<potentialFunction, initialBoundaryPoint, finalBoundaryPoint,
          numPosSteps, numEigVals, mass, hbar, hbarGiven>>

locals == <<xs, dx, Vx, main_diag, off_diag, eigvals, eigstates>>

vars == <<args, pc, locals, energies, states, raised>>

---------------------------------------------------------------------------
\* The statements of discretized_schrodinger as pure functions.

\* np.linspace(a, b, N+2): a + j*(b-a)/(N+1), j = 0..N+1.
Linspace(a, b, num) ==
    [j \in 1..num |-> Fin(a * (num - 1) + (j - 1) * (b - a), num - 1)]

\* np.diff(xs)[0]
DiffFirst(x) == FloatAdd(x[2], FloatMul(Fin(-1, 1), x[1]))

\* potentialFunction(xs): the potential sampled at every mesh point.
Evaluate(pot, x) == [j \in 1..Len(x) |-> pot[j]]

\* v[:-2], an off-by-one slice that keeps the left boundary point.
TrimEnds_KeepLeft(v) == [i \in 1..(Len(v) - 2) |-> v[i]]

\* v[1:-1]
TrimEnds(v) == [i \in 1..(Len(v) - 2) |-> v[i + 1]]

\* (np.power(dx,-2.0) + mass * Vx)[1:-1]
MainDiag(step, m, V) ==
    TrimEnds([j \in 1..Len(V) |->
                 FloatAdd(PowerMinus2(step), FloatMul(Fin(m, 1), V[j]))])

\* np.ones(n) raises ValueError for n < 0.
OnesRaises(n) == n < 0

\* np.ones(len(main_diag)): an off-diagonal as long as the diagonal.
OffDiag_TooLong(step, main) ==
    [i \in 1..Len(main) |->
        FloatMul(FloatMul(PowerMinus2(step), Fin(-1, 2)), Fin(1, 1))]

\* np.power(dx,-2.0) * -0.5 * np.ones(len(main_diag)-1)
OffDiag(step, main) ==
    [i \in 1..(Len(main) - 1) |->
        FloatMul(FloatMul(PowerMinus2(step), Fin(-1, 2)), Fin(1, 1))]


\* check_finite=True: eigh_tridiagonal raises ValueError for an inf or a nan
\* in d or e, and for len(d) /= len(e) + 1.
EighRaises(d, e) ==
    \/ \E i \in 1..Len(d) : ~d[i].fin
    \/ \E i \in 1..Len(e) : ~e[i].fin
    \/ Len(d) /= Len(e) + 1

RECURSIVE LcmDens(_, _)
LcmDens(v, i) == IF i > Len(v) THEN 1 ELSE Lcm(v[i].den, LcmDens(v, i + 1))

\* The common denominator Den of the matrix, and the integer matrix Tint.
CommonDen(d, e) == Lcm(LcmDens(d, 1), LcmDens(e, 1))

Scaled(v, D) == [i \in 1..Len(v) |-> v[i].num * (D \div v[i].den)]

\* Sturm count of the integer symmetric tridiagonal matrix (d, e) at x: the
\* number of sign changes in p_0 = 1, p_j = (d_j - x) p_{j-1} - e_{j-1}^2 p_{j-2},
\* a zero taking the sign of its predecessor, is the number of eigenvalues
\* strictly below x.
RECURSIVE SturmFrom(_, _, _, _, _, _, _)
SturmFrom(d, e, x, j, pPrev, pCur, sCur) ==
    IF j > Len(d) THEN 0
    ELSE LET pNext == (d[j] - x) * pCur
                      - (IF j = 1 THEN 0 ELSE e[j - 1] * e[j - 1] * pPrev)
             sNext == IF pNext = 0 THEN sCur ELSE Sign(pNext)
         IN  (IF sNext /= sCur THEN 1 ELSE 0)
             + SturmFrom(d, e, x, j + 1, pCur, pNext, sNext)

SturmCount(d, e, x) == SturmFrom(d, e, x, 1, 0, 1, 1)

Radius(e, i) ==
    (IF i > 1 THEN Abs(e[i - 1]) ELSE 0) + (IF i <= Len(e) THEN Abs(e[i]) ELSE 0)

Min(S) == CHOOSE x \in S : \A y \in S : x <= y

Max(S) == CHOOSE x \in S : \A y \in S : y <= x

\* Gershgorin bounds of the spectrum.
SpectrumLo(d, e) == Min({d[i] - Radius(e, i) : i \in 1..Len(d)})

SpectrumHi(d, e) == Max({d[i] + Radius(e, i) : i \in 1..Len(d)})

\* The largest integer x in lo..hi with at most i eigenvalues below x, by
\* bisection on the Sturm count (the count at lo is <= i throughout).
RECURSIVE Bisect(_, _, _, _, _)
Bisect(d, e, i, lo, hi) ==
    IF lo >= hi THEN lo
    ELSE LET mid == (lo + hi + 1) \div 2
         IN  IF SturmCount(d, e, mid) <= i
             THEN Bisect(d, e, i, mid, hi)
             ELSE Bisect(d, e, i, lo, mid - 1)

\* floor of the eigenvalue of rank i (0-based, ascending, with multiplicity):
\* the spectrum lies in [SpectrumLo, SpectrumHi].
FloorEig(d, e, i) == Bisect(d, e, i, SpectrumLo(d, e), SpectrumHi(d, e))

\* The selected eigenvalues, largest rank first.
EighValues_Descending(d, e, k) ==
    LET D == CommonDen(d, e)
    IN  [i \in 1..k |-> Fin(FloorEig(Scaled(d, D), Scaled(e, D), k - i), D)]

\* The eigenvalues eigh_tridiagonal returns for select='i',
\* select_range=(0, k-1): ranks 0..k-1 in ascending order.
EighValues(d, e, k) ==
    LET D == CommonDen(d, e)
    IN  [i \in 1..k |-> Fin(FloorEig(Scaled(d, D), Scaled(e, D), i - 1), D)]

\* The amplitude of the eigenvector of rank r (0-based) at interior point s.
Amp(r, s) == [rank |-> r, site |-> s]

\* The eigenvectors eigh_tridiagonal returns: an N x k array whose column i
\* is the eigenvector of eigenvalue i.
EighVectors(d, e, k) == [s \in 1..Len(d) |-> [i \in 1..k |-> Amp(i - 1, s)]]

\* eigstates returned as it is, the .T forgotten.
Transpose_Forgotten(M) == M

\* eigstates.T
Transpose(M) ==
    IF Len(M) = 0 THEN << >>
    ELSE [c \in 1..Len(M[1]) |-> [r \in 1..Len(M) |-> M[r][c]]]

\* hbar/mass on Python numbers raises ZeroDivisionError for mass = 0.
DivRaises(m) == m = 0

\* hbar/mass
Ratio(h, m) == Fin(h * Sign(m), Abs(m))

\* (hbar*mass)*eigvals
Rescale_Times(h, m, w) == [i \in 1..Len(w) |-> FloatMul(Fin(h * m, 1), w[i])]

\* (hbar/mass)*eigvals
Rescale(h, m, w) == [i \in 1..Len(w) |-> FloatMul(Ratio(h, m), w[i])]

\* The matrix eigh_tridiagonal is handed: d on the diagonal, the one sequence
\* e on the sub- and on the super-diagonal, zero elsewhere.
Tridiagonal(d, e) ==
    [i \in 1..Len(d) |-> [j \in 1..Len(d) |->
        IF i = j THEN d[i]
        ELSE IF j = i + 1 THEN e[i]
        ELSE IF i = j + 1 THEN e[j]
        ELSE Fin(0, 1)]]

Unset == << >>

\* Lines 38-47 in one piece: the mesh, the samples, the two diagonals.
Discretize(pot, a, b, N, m) ==
    LET x == Linspace(a, b, N + 2)
        step == DiffFirst(x)
        main == MainDiag(step, m, Evaluate(pot, x))
        fails == OnesRaises(Len(main) - 1)
    IN  [main |-> main,
         raises |-> fails,
         off |-> IF fails THEN Unset ELSE OffDiag(step, main)]

\* The whole call as a function of its arguments: what it raises or returns.
Solve(pot, a, b, N, k, m, h) ==
    LET T == Discretize(pot, a, b, N, m)
        failure(kind) == [raised |-> kind, energies |-> Unset, states |-> Unset]
    IN  IF T.raises THEN failure("ValueError")
        ELSE IF EighRaises(T.main, T.off) THEN failure("ValueError")
        ELSE IF DivRaises(m) THEN failure("ZeroDivisionError")
        ELSE [raised |-> "none",
              energies |-> Rescale(h, m, EighValues(T.main, T.off, k)),
              states |-> Transpose(EighVectors(T.main, T.off, k))]

---------------------------------------------------------------------------
\* The call, statement by statement.

Init ==
    /\ initialBoundaryPoint \in LeftPoints
    /\ finalBoundaryPoint \in RightPoints
    /\ numPosSteps \in 0..MaxN
    /\ numEigVals \in 1..(IF numPosSteps = 0 THEN 1 ELSE numPosSteps)
    /\ mass \in Masses
    /\ hbarGiven \in BOOLEAN
    /\ hbar \in (IF hbarGiven THEN Hbars ELSE {HbarDefault})
    /\ potentialFunction \in [1..(numPosSteps + 2) -> PotValues]
    /\ pc = "linspace"
    /\ xs = Unset /\ dx = NonFinite /\ Vx = Unset
    /\ main_diag = Unset /\ off_diag = Unset
    /\ eigvals = Unset /\ eigstates = Unset
    /\ energies = Unset /\ states = Unset
    /\ raised = "none"

\* xs = np.linspace(a, b, N+2); dx = np.diff(xs)[0]
Mesh ==
    /\ pc = "linspace"
    /\ xs' = Linspace(initialBoundaryPoint, finalBoundaryPoint, numPosSteps + 2)
    /\ dx' = DiffFirst(xs')
    /\ pc' = "potential"
    /\ UNCHANGED <<args, Vx, main_diag, off_diag, eigvals, eigstates,
                   energies, states, raised>>

\* Vx = potentialFunction(xs)
Potential ==
    /\ pc = "potential"
    /\ Vx' = Evaluate(potentialFunction, xs)
    /\ pc' = "main_diag"
    /\ UNCHANGED <<args, xs, dx, main_diag, off_diag, eigvals, eigstates,
                   energies, states, raised>>

\* main_diag = (np.power(dx,-2.0) + mass * Vx)[1:-1]
MainDiagonal ==
    /\ pc = "main_diag"
    /\ main_diag' = MainDiag(dx, mass, Vx)
    /\ pc' = "off_diag"
    /\ UNCHANGED <<args, xs, dx, Vx, off_diag, eigvals, eigstates,
                   energies, states, raised>>

\* off_diag = np.power(dx,-2.0) * -0.5 * np.ones(len(main_diag)-1)
OffDiagonal ==
    /\ pc = "off_diag"
    /\ IF OnesRaises(Len(main_diag) - 1)
       THEN /\ raised' = "ValueError"
            /\ pc' = "raised"
            /\ UNCHANGED off_diag
       ELSE /\ off_diag' = OffDiag(dx, main_diag)
            /\ pc' = "eigh"
            /\ UNCHANGED raised
    /\ UNCHANGED <<args, xs, dx, Vx, main_diag, eigvals, eigstates,
                   energies, states>>

\* eigvals, eigstates = sp.linalg.eigh_tridiagonal(d=main_diag, e=off_diag,
\*     eigvals_only=False, select='i', select_range=(0,numEigVals-1))
Eigensolve ==
    /\ pc = "eigh"
    /\ IF EighRaises(main_diag, off_diag)
       THEN /\ raised' = "ValueError"
            /\ pc' = "raised"
            /\ UNCHANGED <<eigvals, eigstates>>
       ELSE /\ eigvals' = EighValues(main_diag, off_diag, numEigVals)
            /\ eigstates' = EighVectors(main_diag, off_diag, numEigVals)
            /\ pc' = "return"
            /\ UNCHANGED raised
    /\ UNCHANGED <<args, xs, dx, Vx, main_diag, off_diag, energies, states>>

\* return (hbar/mass)*eigvals, eigstates.T
Return ==
    /\ pc = "return"
    /\ IF DivRaises(mass)
       THEN /\ raised' = "ZeroDivisionError"
            /\ pc' = "raised"
            /\ UNCHANGED <<energies, states>>
       ELSE /\ energies' = Rescale(hbar, mass, eigvals)
            /\ states' = Transpose(eigstates)
            /\ pc' = "returned"
            /\ UNCHANGED raised
    /\ UNCHANGED <<args, locals>>

Next == Mesh \/ Potential \/ MainDiagonal \/ OffDiagonal \/ Eigensolve \/ Return

Spec == Init /\ [][Next]_vars

---------------------------------------------------------------------------
\* The properties checked.

Terminated == pc \in {"returned", "raised"}

\* The spec's preconditions: b > a, N >= 1, 1 <= k <= N, mass > 0.
ValidInput ==
    /\ initialBoundaryPoint < finalBoundaryPoint
    /\ numPosSteps >= 1
    /\ 1 <= numEigVals /\ numEigVals <= numPosSteps
    /\ mass > 0

\* The potential is finite on the N interior mesh points.
InteriorFinite == \A j \in 2..(numPosSteps + 1) : potentialFunction[j].fin

\* x <= y on finite floats (denominators are positive).
FloatLeq(x, y) == x.num * y.den <= y.num * x.den

\* energies[i] <= energies[i+1] for every consecutive pair returned.
NonDecreasing(w) == \A i \in 1..(Len(w) - 1) : FloatLeq(w[i], w[i + 1])

\* C1 as stated: for every valid input, whatever hbar is, the returned
\* energies (after the hbar/mass rescale) are non-decreasing.
C1_NonDecreasingAnyHbar ==
    (pc = "returned" /\ ValidInput) => NonDecreasing(energies)

\* C1 amended: for every valid input with hbar >= 0 the returned energies
\* are non-decreasing.
C1_NonDecreasingHbarNonNegative ==
    (pc = "returned" /\ ValidInput /\ hbar >= 0) => NonDecreasing(energies)

C1_Witness ==
    /\ pc = "returned" /\ ValidInput /\ hbar > 0
    /\ numEigVals >= 2
    /\ energies[1] /= energies[2]

\* C2: for valid N and k a returned result holds exactly k energies and k
\* states, state i being row i with one amplitude per interior mesh point
\* (N of them), and a valid input with a potential finite on the interior
\* does return.
C2_ResultShape ==
    (numPosSteps >= 1 /\ 1 <= numEigVals /\ numEigVals <= numPosSteps) =>
        /\ pc = "returned" =>
              /\ Len(energies) = numEigVals
              /\ Len(states) = numEigVals
              /\ \A i \in 1..numEigVals :
                    /\ Len(states[i]) = numPosSteps
                    /\ \A s \in 1..numPosSteps : states[i][s] = Amp(i - 1, s)
        /\ (ValidInput /\ InteriorFinite) => pc /= "raised"

\* A call that returns two equal energies (hbar = 0) and both states.
C2_Witness ==
    /\ pc = "returned" /\ ValidInput
    /\ numEigVals = 2 /\ numPosSteps = 3
    /\ energies[1] = energies[2]

\* The error kinds the spec names.
SpecErrorKinds ==
    {"InvalidDomain", "InvalidMesh", "InvalidMass",
     "PotentialEvaluationError", "ConvergenceFailure", "SingularSystem"}

\* The kinds the spec asks for on the inputs of this call.
KindsDue ==
    (IF initialBoundaryPoint >= finalBoundaryPoint THEN {"InvalidDomain"} ELSE {})
    \cup (IF numPosSteps < 1 THEN {"InvalidMesh"} ELSE {})
    \cup (IF mass <= 0 THEN {"InvalidMass"} ELSE {})

\* C3 as stated: a call with a >= b, N < 1 or mass <= 0 returns no result
\* and ends with the error kind of (one of) its invalid inputs.
C3_InvalidInputsRejected ==
    KindsDue /= {} =>
        /\ pc /= "returned"
        /\ pc = "raised" => raised \in KindsDue

\* C4 as stated: a call ends with a complete result, or with exactly one of
\* the spec's error kinds and no result at all.
C4_CompleteOrSpecError ==
    Terminated =>
        \/ /\ pc = "returned" /\ raised = "none"
           /\ Len(energies) = numEigVals /\ Len(states) = numEigVals
           /\ \A i \in 1..numEigVals : energies[i].fin
        \/ /\ pc = "raised" /\ raised \in SpecErrorKinds
           /\ energies = Unset /\ states = Unset

\* Whether the statement at label p has run.
Past(p) ==
    CASE p = "main_diag" -> pc \in {"off_diag", "eigh", "return", "returned"}
                             \/ (pc = "raised")
      [] p = "off_diag"  -> pc \in {"eigh", "return", "returned"}
                             \/ (pc = "raised" /\ numPosSteps >= 1)

\* C5: for N >= 1 main_diag has N entries and off_diag N - 1, and the matrix
\* the eigensolver is handed, built from the one off_diag, is symmetric
\* tridiagonal.
C5_DiagonalLengths ==
    /\ Past("main_diag") => Len(main_diag) = numPosSteps
    /\ (numPosSteps >= 1 /\ pc /= "linspace" /\ pc /= "potential"
           /\ pc /= "main_diag" /\ pc /= "off_diag") =>
          /\ Len(off_diag) = Len(main_diag) - 1
          /\ Len(off_diag) = numPosSteps - 1
          /\ LET T == Tridiagonal(main_diag, off_diag)
             IN  \A i, j \in 1..numPosSteps :
                    /\ T[i][j] = T[j][i]
                    /\ (i - j > 1 \/ j - i > 1) => T[i][j] = Fin(0, 1)

C5_Witness == pc = "eigh" /\ numPosSteps = 3 /\ Len(off_diag) = 2

\* The potential with both boundary samples replaced by 0.
ZeroEnds(pot) ==
    [j \in 1..Len(pot) |-> IF j = 1 \/ j = Len(pot) THEN Fin(0, 1) ELSE pot[j]]

\* C6: the boundary samples never matter: main_diag[i] is dx^-2 + mass * V
\* at mesh index i+1, off_diag is -dx^-2/2 whatever the potential, and the
\* diagonals and the outcome of the call are those of the potential with its
\* two boundary samples replaced (any two potentials that agree on the
\* interior have the same replacement).
C6_BoundarySamplesIgnored ==
    LET T == Discretize(ZeroEnds(potentialFunction), initialBoundaryPoint,
                        finalBoundaryPoint, numPosSteps, mass)
        R == Solve(ZeroEnds(potentialFunction), initialBoundaryPoint,
                   finalBoundaryPoint, numPosSteps, numEigVals, mass, hbar)
    IN  /\ Past("main_diag") =>
              /\ main_diag = T.main
              /\ \A i \in 1..Len(main_diag) :
                    main_diag[i] = FloatAdd(PowerMinus2(dx),
                        FloatMul(Fin(mass, 1), potentialFunction[i + 1]))
        /\ (Past("off_diag") /\ numPosSteps >= 1) =>
              /\ off_diag = T.off
              /\ \A i \in 1..Len(off_diag) :
                    off_diag[i] = FloatMul(PowerMinus2(dx), Fin(-1, 2))
        /\ Terminated =>
              /\ raised = R.raised
              /\ energies = R.energies
              /\ states = R.states

C6_Witness ==
    /\ pc = "returned" /\ numPosSteps >= 2
    /\ ~potentialFunction[1].fin
    /\ potentialFunction[numPosSteps + 2] = Fin(1, 1)
    /\ potentialFunction[2] = Fin(1, 1)

\* C7: the eigenvalues are those of the matrix the discretization built,
\* energy i is hbar/mass times eigenvalue i, with hbar = 1 when the caller
\* gave none, and the diagonals and the states are determined by the
\* arguments other than hbar (so they are the same for every hbar).
C7_RescaleByHbarOverMass ==
    LET T == Discretize(potentialFunction, initialBoundaryPoint,
                        finalBoundaryPoint, numPosSteps, mass)
    IN  /\ pc \in {"return", "returned"} =>
              /\ main_diag = T.main /\ off_diag = T.off
              /\ eigvals = EighValues(T.main, T.off, numEigVals)
        /\ pc = "returned" =>
              /\ states = Transpose(EighVectors(T.main, T.off, numEigVals))
              /\ Len(energies) = Len(eigvals)
              /\ \A i \in 1..Len(eigvals) :
                    /\ energies[i].fin
                    /\ energies[i].num * mass * eigvals[i].den
                          = (IF hbarGiven THEN hbar ELSE 1)
                               * eigvals[i].num * energies[i].den

C7_Witness ==
    /\ pc = "returned" /\ ~hbarGiven /\ mass = 2
    /\ energies[1].num /= 0
    /\ energies[1] /= eigvals[1]


=============================================================================
